---- MODULE Spec2Model ----
(***************************************************************************)
(* A model of gaia's training-data simulation:                             *)
(*   - lr_simulate   (src/gaia/simulate.py), the batch scheduler that      *)
(*     collects labelled feature records until the requested count,        *)
(*   - unet_simulate (src/gaia/simulate.py), the dense-output scheduler,   *)
(*   - MsprimeSimulator._get_true_tracts / run                             *)
(*     (src/gaia/utils/simulators/MsprimeSimulator.py), the extraction and *)
(*     merging of introgressed tracts.                                     *)
(* Each of the three is a specification of its own (Spec, SpecUnet,        *)
(* SpecTracts) over the variables of this module.                          *)
(***************************************************************************)
EXTENDS Integers, Sequences, FiniteSets, TLC

(***************************************************************************)
(* Bounds of the model.                                                    *)
(***************************************************************************)
\* largest requested feature count explored (nfeature ranges over -1..MaxNFeature)
MaxNFeature == 3
\* largest batch size explored (nrep ranges over 0..MaxNrep)
MaxNrep == 2
\* number of batches after which the model stops dispatching
MaxBatches == 2
\* target samples per replicate that can yield a record
NSamples == 2
\* largest number of worker processes explored
MaxProcess == 2
\* largest number of trees of a simulated forest
MaxTrees == 2
\* largest number of records of a migration table
MaxMig == 2
\* ploidy of the simulated individuals
Ploidy == 2
\* seeds explored (1..MaxSeed)
MaxSeed == 2
\* length of the simulated sequence (positions 0..SeqLen)
SeqLen == 3

Min(a, b) == IF a <= b THEN a ELSE b
Max(a, b) == IF a >= b THEN a ELSE b

(***************************************************************************)
(* State of lr_simulate.                                                   *)
(***************************************************************************)
VARIABLES
    pc,                 \* position in lr_simulate
    nfeature, nrep, seed, is_shuffled, force_balanced, keep_sim_data,  \* arguments
    start_rep,          \* replicate cursor
    intro_features,     \* accumulated records with Label 1
    non_intro_features, \* accumulated records with Label 0
    is_stopped,         \* loop flag
    pending,            \* replicates of the current batch still running in mp_manager
    features,           \* records returned so far by the current batch, in completion order
    worker_error,       \* a worker of the current batch failed (mp_manager returns "error")
    made_output_dir,    \* output_dir has been created
    dirs,               \* replicate directories under output_dir, by replicate index
    written,            \* the feature table has been written
    output,             \* rows of the written feature table
    nbatches,           \* batches dispatched so far
    \* the same run with the workers of every batch completing in index order
    ref_features, ref_intro, ref_non_intro, ref_output,
    reordered           \* some batch completed in another order than index order

vars_lr == <<pc, nfeature, nrep, seed, is_shuffled, force_balanced, keep_sim_data,
             start_rep, intro_features, non_intro_features, is_stopped, pending,
             features, worker_error, made_output_dir, dirs, written, output, nbatches,
             ref_features, ref_intro, ref_non_intro, ref_output, reordered>>

(***************************************************************************)
(* State of unet_simulate that lr_simulate does not have.  unet_simulate   *)
(* shares pc, nfeature, nrep, seed, force_balanced, start_rep, pending and *)
(* nbatches with lr_simulate: the two are never run together.              *)
(***************************************************************************)
VARIABLES
    nprocess,           \* number of worker processes
    only_intro,         \* keep only items of the introgressed class
    only_non_intro,     \* keep only items of the other class
    num_intro,          \* shared counter of introgressed items (Value("i", 0))
    num_nonintro,       \* shared counter of the other items
    lock,               \* 0 when free, else the worker that holds it
    worker              \* per worker: "idle", "simulating" or "locked"

vars_unet == <<nprocess, only_intro, only_non_intro, num_intro, num_nonintro, lock, worker>>

(***************************************************************************)
(* State of MsprimeSimulator.run from the simulated tree sequence on.      *)
(***************************************************************************)
VARIABLES
    tpc,                \* position in MsprimeSimulator.run / _get_true_tracts
    ts,                 \* the simulated forest: trees [left, right, parent], in order
    migrations,         \* the migration table of ts
    src_name, tgt_name, \* the population names given (self.src_id, self.tgt_id)
    is_phased, ploidy,  \* arguments
    src_id, tgt_id,     \* the population ids the names resolve to
    tgt_samples,        \* ts.samples(tgt_id)
    ts_simplified,      \* the forest returned by _simplify_ts
    migtable,           \* the migrations returned by _simplify_ts
    tracts,             \* rows of the string built by _get_true_tracts, below its header
    provenance,         \* per row of tracts: the migration, tree and node it was emitted for
    true_tracts,        \* the merged tracts
    bed_file,           \* the tract file: [exists, header, rows]
    visits              \* the (migration, tree) pairs the loop of line 247 went through

vars_tracts == <<tpc, ts, migrations, src_name, tgt_name, is_phased, ploidy, src_id, tgt_id,
                 tgt_samples, ts_simplified, migtable, tracts, provenance, true_tracts,
                 bed_file, visits>>

(* LRTrainingDataSimulator.run for one replicate *)
VARIABLES
    rpc,                \* where run is
    rep,                \* the replicate index
    sim_fails,          \* whether self.simulator.run raises (line 147)
    covered,            \* sample |-> the length of the window its tracts cover
    intro_min,          \* intro_prop * win_len
    non_intro_max,      \* non_intro_prop * win_len
    labels,             \* what the labeler returned
    feature_vectors,    \* what the preprocessor returned
    merged_list,        \* the records run returns
    files               \* the paths self.simulator.run has written

vars_run == <<rpc, rep, sim_fails, covered, intro_min, non_intro_max, labels,
              feature_vectors, merged_list, files>>

\* the variables of lr_simulate that unet_simulate does not use
vars_lr_only == <<is_shuffled, keep_sim_data, intro_features, non_intro_features,
                  is_stopped, features, worker_error, made_output_dir, dirs, written,
                  output, ref_features, ref_intro, ref_non_intro, ref_output, reordered>>

\* what the actions of each part leave alone
frame_lr == <<vars_unet, vars_tracts, vars_run>>
frame_unet == <<vars_lr_only, vars_tracts, vars_run>>
frame_tracts == <<vars_lr, vars_unet, vars_run>>
frame_run == <<vars_lr, vars_unet, vars_tracts>>

Samples == 1..NSamples

\* A feature record: LRTrainingDataSimulator uses one window [0, seq_len) on
\* chromosome 1 per replicate, so a record is told apart by Replicate and Sample.
Record(i, s, l) ==
    [Replicate |-> i, Chromosome |-> 1, Start |-> 0, End |-> SeqLen, Sample |-> s, Label |-> l]

(***************************************************************************)
(* The sort key of lines 185-193 and 233-241 and Python's stable sort.     *)
(***************************************************************************)
Key(x) == <<x.Replicate, x.Chromosome, x.Start, x.End, x.Sample>>

RECURSIVE TupleLess(_, _)
TupleLess(a, b) ==
    IF a = <<>> \/ b = <<>> THEN a = <<>> /\ b # <<>>
    ELSE IF Head(a) # Head(b) THEN Head(a) < Head(b)
    ELSE TupleLess(Tail(a), Tail(b))

KeyLess(x, y) == TupleLess(Key(x), Key(y))

\* x after every element whose key is not greater: what a stable sort does
RECURSIVE InsertSorted(_, _)
InsertSorted(s, x) ==
    IF s = <<>> THEN <<x>>
    ELSE IF KeyLess(x, Head(s)) THEN <<x>> \o s
    ELSE <<Head(s)>> \o InsertSorted(Tail(s), x)

\* a bug: the batch is left in completion order
SortByKeyNoSort(s) == s

RECURSIVE SortByKey(_)
SortByKey(s) ==
    IF s = <<>> THEN <<>>
    ELSE InsertSorted(SortByKey(SubSeq(s, 1, Len(s) - 1)), s[Len(s)])

\* Python's s[:n]
Slice(s, n) ==
    IF n >= 0 THEN SubSeq(s, 1, Min(n, Len(s)))
    ELSE SubSeq(s, 1, Max(0, Len(s) + n))

WithLabel(s, l) == SelectSeq(s, LAMBDA x : x.Label = l)

(***************************************************************************)
(* random.seed(seed); random.shuffle(x): a Fisher-Yates pass from the last *)
(* index down, drawing j = randbelow(i + 1) from a generator whose state   *)
(* is a function of the seed alone.  The Mersenne Twister is abstracted to *)
(* a small linear congruential generator.                                  *)
(***************************************************************************)
NextRandom(s) == (5 * s + 3) % 16

Swap(x, i, j) == [x EXCEPT ![i] = x[j], ![j] = x[i]]

RECURSIVE ShuffleFrom(_, _, _)
ShuffleFrom(x, i, s) ==
    IF i <= 1 THEN x
    ELSE ShuffleFrom(Swap(x, i, (s % i) + 1), i - 1, NextRandom(s))

Shuffle(x, sd) == ShuffleFrom(x, Len(x), NextRandom(sd))

(***************************************************************************)
(* lr_simulate                                                             *)
(***************************************************************************)
\* a bug: the extra record of an odd total is given to no class
num_intro_featuresHalf == nfeature \div 2

\* lines 165-166
num_intro_features == (nfeature \div 2) + (nfeature % 2)
num_non_intro_features == nfeature \div 2

InitLR ==
    /\ pc = "start"
    /\ nfeature \in -1..MaxNFeature
    /\ nrep \in 0..MaxNrep
    /\ seed \in 1..MaxSeed
    /\ is_shuffled \in BOOLEAN
    /\ force_balanced \in BOOLEAN
    /\ keep_sim_data \in BOOLEAN
    /\ start_rep = 0
    /\ intro_features = <<>>
    /\ non_intro_features = <<>>
    /\ is_stopped = FALSE
    /\ pending = {}
    /\ features = <<>>
    /\ worker_error = FALSE
    /\ made_output_dir = FALSE
    /\ dirs = {}
    /\ written = FALSE
    /\ output = <<>>
    /\ nbatches = 0
    /\ ref_features = <<>>
    /\ ref_intro = <<>>
    /\ ref_non_intro = <<>>
    /\ ref_output = <<>>
    /\ reordered = FALSE

\* a bug: zero is let through
CheckNFeatureNegativeOnly == IF nfeature < 0 THEN "ValueError" ELSE "setup"

\* lines 133-134
CheckNFeature == IF nfeature <= 0 THEN "ValueError" ELSE "setup"

\* lines 133-134
Validate ==
    /\ pc = "start"
    /\ pc' = CheckNFeature
    /\ UNCHANGED <<made_output_dir, nfeature, nrep, seed, is_shuffled, force_balanced, keep_sim_data,
                   start_rep, intro_features, non_intro_features, is_stopped, pending,
                   features, worker_error, dirs, written, output, nbatches,
                   ref_features, ref_intro, ref_non_intro, ref_output, reordered>>
    /\ UNCHANGED frame_lr

\* lines 136-168
Setup ==
    /\ pc = "setup"
    /\ made_output_dir' = TRUE
    /\ intro_features' = <<>>
    /\ non_intro_features' = <<>>
    /\ start_rep' = 0
    /\ is_stopped' = FALSE
    /\ pc' = "loop"
    /\ UNCHANGED <<dirs, nfeature, nrep, seed, is_shuffled, force_balanced, keep_sim_data,
                   pending, features, worker_error, written, output, nbatches,
                   ref_features, ref_intro, ref_non_intro, ref_output, reordered>>
    /\ UNCHANGED frame_lr

\* lines 170-180: the generator of the batch start_rep .. start_rep + nrep - 1
\* is handed to mp_manager
Dispatch ==
    /\ pc = "loop"
    /\ ~is_stopped
    /\ nbatches < MaxBatches
    /\ pending' = {i \in 0..(start_rep + nrep - 1) : i >= start_rep}
    /\ features' = <<>>
    /\ ref_features' = <<>>
    /\ worker_error' = FALSE
    /\ nbatches' = nbatches + 1
    /\ pc' = "mp_manager"
    /\ UNCHANGED <<made_output_dir, nfeature, nrep, seed, is_shuffled, force_balanced, keep_sim_data,
                   start_rep, intro_features, non_intro_features, is_stopped,
                   dirs, written, output, ref_intro, ref_non_intro, ref_output, reordered>>
    /\ UNCHANGED frame_lr

\* The records one replicate can return: at most one per sample, each labelled
\* 0 or 1, in the order the worker built them.
RECURSIVE ReplicateResults(_, _)
ReplicateResults(i, n) ==
    IF n = 0 THEN {<<>>}
    ELSE LET rest == ReplicateResults(i, n - 1)
         IN  rest \cup {r \o <<Record(i, n, l)>> : r \in rest, l \in {0, 1}}
                  \cup {<<Record(i, n, l)>> \o r : r \in rest, l \in {0, 1}}

\* the records of replicate i in sample order
RECURSIVE OrderedResults(_, _)
OrderedResults(i, n) ==
    IF n = 0 THEN {<<>>}
    ELSE LET rest == OrderedResults(i, n - 1)
         IN  rest \cup {r \o <<Record(i, n, l)>> : r \in rest, l \in {0, 1}}

Range(s) == {s[k] : k \in 1..Len(s)}

\* what the batch has returned so far had its workers completed in index order,
\* each with its records in sample order
InIndexOrder(sofar, i, recs) ==
    SelectSeq(sofar, LAMBDA x : x.Replicate < i)
    \o (CHOOSE r \in OrderedResults(i, NSamples) : Range(r) = Range(recs))
    \o SelectSeq(sofar, LAMBDA x : x.Replicate > i)

\* a worker of the batch completes replicate i and its records are collected
WorkerDone(i) ==
    /\ pc = "mp_manager"
    /\ i \in pending
    /\ ~worker_error
    /\ \E recs \in ReplicateResults(i, NSamples) :
          /\ features' = features \o recs
          /\ ref_features' = InIndexOrder(ref_features, i, recs)
    /\ pending' = pending \ {i}
    /\ dirs' = dirs \cup {i}
    /\ UNCHANGED <<made_output_dir, pc, nfeature, nrep, seed, is_shuffled, force_balanced, keep_sim_data,
                   start_rep, intro_features, non_intro_features, is_stopped,
                   worker_error, written, output, nbatches,
                   ref_intro, ref_non_intro, ref_output, reordered>>
    /\ UNCHANGED frame_lr

\* a worker of the batch raises: mp_manager will return "error"
WorkerFail(i) ==
    /\ pc = "mp_manager"
    /\ i \in pending
    /\ ~worker_error
    /\ worker_error' = TRUE
    /\ pending' = pending \ {i}
    /\ dirs' = dirs \cup {i}
    /\ UNCHANGED <<made_output_dir, pc, nfeature, nrep, seed, is_shuffled, force_balanced, keep_sim_data,
                   start_rep, intro_features, non_intro_features, is_stopped,
                   features, written, output, nbatches,
                   ref_features, ref_intro, ref_non_intro, ref_output, reordered>>
    /\ UNCHANGED frame_lr

\* a bug: the failure of a batch is ignored and its records are used
AfterBatchIgnoreError == "cleanup"

\* lines 182-183
AfterBatch == IF worker_error THEN "SystemExit" ELSE "cleanup"

\* lines 176-196: mp_manager returns; the batch is sorted
Return ==
    /\ pc = "mp_manager"
    /\ pending = {} \/ worker_error
    /\ pc' = AfterBatch
    /\ features' = IF worker_error THEN features ELSE SortByKey(features)
    /\ ref_features' = IF worker_error THEN ref_features ELSE SortByKey(ref_features)
    /\ reordered' = (reordered \/ features # ref_features)
    /\ UNCHANGED <<made_output_dir, nfeature, nrep, seed, is_shuffled, force_balanced, keep_sim_data,
                   start_rep, intro_features, non_intro_features, is_stopped, pending,
                   worker_error, dirs, written, output, nbatches,
                   ref_intro, ref_non_intro, ref_output>>
    /\ UNCHANGED frame_lr

\* lines 198-200
Cleanup ==
    /\ pc = "cleanup"
    /\ dirs' = IF keep_sim_data THEN dirs
               ELSE dirs \ {i \in 0..(start_rep + nrep - 1) : i >= start_rep}
    /\ pc' = "accumulate"
    /\ UNCHANGED <<made_output_dir, nfeature, nrep, seed, is_shuffled, force_balanced, keep_sim_data,
                   start_rep, intro_features, non_intro_features, is_stopped, pending,
                   features, worker_error, written, output, nbatches,
                   ref_features, ref_intro, ref_non_intro, ref_output, reordered>>
    /\ UNCHANGED frame_lr

\* a bug: the quota is not looked at, every record of the batch is kept
AddIntroAll(acc, batch) == acc \o WithLabel(batch, 1)

\* a bug: the records of a batch are appended in the order they arrived in
AddNonIntroLast(acc, batch) ==
    IF force_balanced
    THEN acc \o Slice(WithLabel(batch, 0),
                      Min(num_non_intro_features - Len(acc), Len(WithLabel(batch, 0))))
    ELSE WithLabel(batch, 0) \o acc

\* lines 204-210 and 216-217: what a batch adds to the two accumulators
AddIntro(acc, batch) ==
    IF force_balanced
    THEN acc \o Slice(WithLabel(batch, 1),
                      Min(num_intro_features - Len(acc), Len(WithLabel(batch, 1))))
    ELSE acc \o WithLabel(batch, 1)

AddNonIntro(acc, batch) ==
    IF force_balanced
    THEN acc \o Slice(WithLabel(batch, 0),
                      Min(num_non_intro_features - Len(acc), Len(WithLabel(batch, 0))))
    ELSE acc \o WithLabel(batch, 0)

\* a bug: under force_balanced one met quota is enough
StopConditionEither(intro, non_intro) ==
    IF force_balanced
    THEN Len(intro) >= num_intro_features \/ Len(non_intro) >= num_non_intro_features
    ELSE Len(intro) + Len(non_intro) >= nfeature

\* lines 211-214 and 218
StopCondition(intro, non_intro) ==
    IF force_balanced
    THEN Len(intro) >= num_intro_features /\ Len(non_intro) >= num_non_intro_features
    ELSE Len(intro) + Len(non_intro) >= nfeature

\* a bug: the cursor stays where it is after a batch that returned nothing
AdvanceIfAny(start) == IF features = <<>> THEN start ELSE start + nrep

\* lines 224 and 405: start_rep += nrep
Advance(start) == start + nrep

\* lines 202-224
Accumulate ==
    /\ pc = "accumulate"
    /\ intro_features' = AddIntro(intro_features, features)
    /\ non_intro_features' = AddNonIntro(non_intro_features, features)
    /\ ref_intro' = AddIntro(ref_intro, ref_features)
    /\ ref_non_intro' = AddNonIntro(ref_non_intro, ref_features)
    /\ is_stopped' = StopCondition(intro_features', non_intro_features')
    /\ start_rep' = Advance(start_rep)
    /\ pc' = "loop"
    /\ UNCHANGED <<made_output_dir, nfeature, nrep, seed, is_shuffled, force_balanced, keep_sim_data,
                   pending, features, worker_error, dirs, written, output, nbatches,
                   ref_features, ref_output, reordered>>
    /\ UNCHANGED frame_lr

\* a bug: the overshoot of the last batch is not cut off
TruncateNoCut(total) == total

\* line 227
Truncate(total) == Slice(total, nfeature)

\* lines 229-241
Order(total) == IF is_shuffled THEN Shuffle(total, seed) ELSE SortByKey(total)

\* a bug: the rows are put in order (shuffled) before the cut to nfeature
FinishOrderFirst ==
    /\ pc = "loop"
    /\ is_stopped
    /\ output' = Truncate(Order(intro_features \o non_intro_features))
    /\ ref_output' = Truncate(Order(ref_intro \o ref_non_intro))
    /\ written' = TRUE
    /\ pc' = "done"
    /\ UNCHANGED <<made_output_dir, nfeature, nrep, seed, is_shuffled, force_balanced, keep_sim_data,
                   start_rep, intro_features, non_intro_features, is_stopped, pending,
                   features, worker_error, dirs, nbatches,
                   ref_features, ref_intro, ref_non_intro, reordered>>
    /\ UNCHANGED frame_lr

\* a bug: the table is built from the negatives followed by the positives
FinishNegativesFirst ==
    /\ pc = "loop"
    /\ is_stopped
    /\ output' = Order(Truncate(non_intro_features \o intro_features))
    /\ ref_output' = Order(Truncate(ref_non_intro \o ref_intro))
    /\ written' = TRUE
    /\ pc' = "done"
    /\ UNCHANGED <<made_output_dir, nfeature, nrep, seed, is_shuffled, force_balanced, keep_sim_data,
                   start_rep, intro_features, non_intro_features, is_stopped, pending,
                   features, worker_error, dirs, nbatches,
                   ref_features, ref_intro, ref_non_intro, reordered>>
    /\ UNCHANGED frame_lr

\* lines 226-243
Finish ==
    /\ pc = "loop"
    /\ is_stopped
    /\ output' = Order(Truncate(intro_features \o non_intro_features))
    /\ ref_output' = Order(Truncate(ref_intro \o ref_non_intro))
    /\ written' = TRUE
    /\ pc' = "done"
    /\ UNCHANGED <<made_output_dir, nfeature, nrep, seed, is_shuffled, force_balanced, keep_sim_data,
                   start_rep, intro_features, non_intro_features, is_stopped, pending,
                   features, worker_error, dirs, nbatches,
                   ref_features, ref_intro, ref_non_intro, reordered>>
    /\ UNCHANGED frame_lr

NextLR ==
    \/ Validate
    \/ Setup
    \/ Dispatch
    \/ \E i \in pending : WorkerDone(i)
    \/ \E i \in pending : WorkerFail(i)
    \/ Return
    \/ Cleanup
    \/ Accumulate
    \/ Finish

(***************************************************************************)
(* unet_simulate                                                           *)
(***************************************************************************)
Workers == 1..MaxProcess

InitUnet ==
    /\ pc = "start"
    /\ nfeature \in -1..MaxNFeature
    /\ nrep \in 1..MaxNrep
    /\ seed = 1
    /\ force_balanced \in BOOLEAN
    /\ nprocess \in 1..MaxProcess
    /\ only_intro \in BOOLEAN
    /\ only_non_intro \in BOOLEAN
    /\ ~(only_intro /\ only_non_intro)
    /\ start_rep = 0
    /\ num_intro = 0
    /\ num_nonintro = 0
    /\ lock = 0
    /\ worker = [w \in Workers |-> "idle"]
    /\ pending = {}
    /\ nbatches = 0

\* lines 357-381: there is no check of nfeature
UnetSetup ==
    /\ pc = "start"
    /\ start_rep' = 0
    /\ num_intro' = 0
    /\ num_nonintro' = 0
    /\ lock' = 0
    /\ pc' = "loop"
    /\ UNCHANGED <<nfeature, nrep, seed, force_balanced, nprocess, only_intro,
                   only_non_intro, worker, pending, nbatches>>
    /\ UNCHANGED frame_unet

\* lines 383-401
UnetDispatch ==
    /\ pc = "loop"
    /\ nbatches < MaxBatches
    /\ pending' = {i \in 0..(start_rep + nrep - 1) : i >= start_rep}
    /\ nbatches' = nbatches + 1
    /\ pc' = "mp_manager"
    /\ UNCHANGED <<nfeature, nrep, seed, force_balanced, nprocess, only_intro,
                   only_non_intro, start_rep, num_intro, num_nonintro, lock, worker>>
    /\ UNCHANGED frame_unet

\* a worker process takes a replicate of the batch
UnetWorkerStart(w) ==
    /\ pc = "mp_manager"
    /\ w <= nprocess
    /\ worker[w] = "idle"
    /\ \E i \in pending : pending' = pending \ {i}
    /\ worker' = [worker EXCEPT ![w] = "simulating"]
    /\ UNCHANGED <<pc, nfeature, nrep, seed, force_balanced, nprocess, only_intro,
                   only_non_intro, start_rep, num_intro, num_nonintro, lock, nbatches>>
    /\ UNCHANGED frame_unet

\* the worker has an item of its replicate and takes the lock
UnetWorkerAcquire(w) ==
    /\ worker[w] = "simulating"
    /\ lock = 0
    /\ lock' = w
    /\ worker' = [worker EXCEPT ![w] = "locked"]
    /\ UNCHANGED <<pc, nfeature, nrep, seed, force_balanced, nprocess, only_intro,
                   only_non_intro, start_rep, num_intro, num_nonintro, pending, nbatches>>
    /\ UNCHANGED frame_unet

\* whether an item of class l (1 introgressed, 0 not) is still wanted
QuotaOpen(l) ==
    IF only_intro THEN l = 1 /\ num_intro < nfeature
    ELSE IF only_non_intro THEN l = 0 /\ num_nonintro < nfeature
    ELSE IF force_balanced
         THEN IF l = 1 THEN num_intro < (nfeature \div 2) + (nfeature % 2)
                       ELSE num_nonintro < nfeature \div 2
    ELSE num_intro + num_nonintro < nfeature

\* under the lock the worker counts its item, or drops it when its class is
\* full, and releases the lock
UnetWorkerCount(w) ==
    /\ worker[w] = "locked"
    /\ lock = w
    /\ \E l \in {0, 1} :
          /\ num_intro' = IF l = 1 /\ QuotaOpen(l) THEN num_intro + 1 ELSE num_intro
          /\ num_nonintro' = IF l = 0 /\ QuotaOpen(l) THEN num_nonintro + 1 ELSE num_nonintro
    /\ lock' = 0
    /\ worker' = [worker EXCEPT ![w] = "idle"]
    /\ UNCHANGED <<pc, nfeature, nrep, seed, force_balanced, nprocess, only_intro,
                   only_non_intro, start_rep, pending, nbatches>>
    /\ UNCHANGED frame_unet

\* a bug: the loop is left after the first batch whatever was counted
UnetStopAfterBatch == TRUE

\* line 403
UnetStop == num_intro + num_nonintro >= nfeature

\* lines 390-405: mp_manager returns when the batch is through
UnetReturn ==
    /\ pc = "mp_manager"
    /\ pending = {}
    /\ \A w \in Workers : worker[w] = "idle"
    /\ IF UnetStop
       THEN pc' = "done" /\ start_rep' = start_rep
       ELSE pc' = "loop" /\ start_rep' = Advance(start_rep)
    /\ UNCHANGED <<nfeature, nrep, seed, force_balanced, nprocess, only_intro,
                   only_non_intro, num_intro, num_nonintro, lock, worker, pending, nbatches>>
    /\ UNCHANGED frame_unet

NextUnet ==
    \/ UnetSetup
    \/ UnetDispatch
    \/ \E w \in Workers : UnetWorkerStart(w)
    \/ \E w \in Workers : UnetWorkerAcquire(w)
    \/ \E w \in Workers : UnetWorkerCount(w)
    \/ UnetReturn

IdleLR ==
    /\ is_shuffled = FALSE
    /\ keep_sim_data = FALSE
    /\ intro_features = <<>>
    /\ non_intro_features = <<>>
    /\ is_stopped = FALSE
    /\ features = <<>>
    /\ worker_error = FALSE
    /\ made_output_dir = FALSE
    /\ dirs = {}
    /\ written = FALSE
    /\ output = <<>>
    /\ ref_features = <<>>
    /\ ref_intro = <<>>
    /\ ref_non_intro = <<>>
    /\ ref_output = <<>>
    /\ reordered = FALSE

\* lr_simulate and unet_simulate not running
InitIdleLR ==
    /\ IdleLR
    /\ pc = "idle"
    /\ nfeature = 1
    /\ nrep = 1
    /\ seed = 1
    /\ force_balanced = FALSE
    /\ start_rep = 0
    /\ pending = {}
    /\ nbatches = 0

IdleUnet ==
    /\ nprocess = 1
    /\ only_intro = FALSE
    /\ only_non_intro = FALSE
    /\ num_intro = 0
    /\ num_nonintro = 0
    /\ lock = 0
    /\ worker = [w \in Workers |-> "idle"]

IdleTracts ==
    /\ tpc = "idle"
    /\ ts = <<>>
    /\ migrations = <<>>
    /\ src_name = "src"
    /\ tgt_name = "tgt"
    /\ is_phased = FALSE
    /\ ploidy = 1
    /\ src_id = -1
    /\ tgt_id = -1
    /\ tgt_samples = {}
    /\ ts_simplified = <<>>
    /\ migtable = <<>>
    /\ tracts = <<>>
    /\ provenance = <<>>
    /\ true_tracts = <<>>
    /\ bed_file = [exists |-> FALSE, header |-> FALSE, rows |-> <<>>]
    /\ visits = <<>>

vars == <<vars_lr, vars_unet, vars_tracts, vars_run>>

(***************************************************************************)
(* The simulated tree sequence.  Nodes 0 and 1 are the sampled genomes of  *)
(* the target population, node 2 an ancestor in the target population and  *)
(* node 3 an ancestor in the reference population; a migration record is   *)
(* of the lineage of node 0, 2 or 3.  The genomes sampled from the         *)
(* reference population are left out: the extraction never looks at them   *)
(* and simplify does not keep them, so the child lineages of nodes 2 and 3 *)
(* that lead only to them are not in the parent maps.  A tree is its       *)
(* interval                                                                *)
(* [left, right) and its parent map (a node outside its domain is a root   *)
(* or is not in the tree).  Coordinates are integers: msprime simulates a  *)
(* discrete genome, so int(left) and int(right) at line 257 change nothing.*)
(***************************************************************************)
Nodes == {0, 1, 2, 3}
SampleNodes == {0, 1}
AncestorNodes == {2, 3}
MigNodes == {0, 2, 3}

\* the population table: id of a population |-> its name
PopNames == [p \in {0, 1, 2} |-> IF p = 0 THEN "ref" ELSE IF p = 1 THEN "tgt" ELSE "src"]

NodePopulation(n) == IF n = 3 THEN 0 ELSE 1

ParentMaps == UNION {[D -> AncestorNodes] : D \in SUBSET SampleNodes}

\* the ways to cut [from, SeqLen) into at most n intervals
RECURSIVE Partitions(_, _)
Partitions(from, n) ==
    IF n = 0 THEN {}
    ELSE {<<[left |-> from, right |-> SeqLen]>>}
         \cup UNION {{<<[left |-> from, right |-> c]>> \o rest : rest \in Partitions(c, n - 1)} :
                        c \in (from + 1)..(SeqLen - 1)}

\* the forests over the first k intervals of partition p: adjacent trees differ
RECURSIVE ForestsOver(_, _)
ForestsOver(p, k) ==
    IF k = 0 THEN {<<>>}
    ELSE {f \o <<[left |-> p[k].left, right |-> p[k].right, parent |-> pm]>> :
             f \in ForestsOver(p, k - 1),
             pm \in ParentMaps}

AdjacentTreesDiffer(f) == \A k \in 1..(Len(f) - 1) : f[k].parent # f[k + 1].parent

Forests ==
    {f \in UNION {ForestsOver(p, Len(p)) : p \in Partitions(0, MaxTrees)} :
        AdjacentTreesDiffer(f)}

\* migration records: those of an introgression (target to source, backwards
\* in time) over any interval and node, and three that are not
Intervals == {<<l, r>> \in (0..SeqLen) \X (0..SeqLen) : l < r}

MigRecords ==
    {[left |-> i[1], right |-> i[2], node |-> n, source |-> 1, dest |-> 2] :
        i \in Intervals, n \in MigNodes}
    \cup {[left |-> 0, right |-> SeqLen, node |-> 2, source |-> sd[1], dest |-> sd[2]] :
            sd \in {<<2, 1>>, <<1, 0>>, <<0, 2>>}}

RECURSIVE MigTables(_)
MigTables(n) ==
    IF n = 0 THEN {<<>>}
    ELSE MigTables(n - 1)
         \cup {t \o <<m>> : t \in {x \in MigTables(n - 1) : Len(x) = n - 1}, m \in MigRecords}

(***************************************************************************)
(* MsprimeSimulator._get_true_tracts and _simplify_ts                      *)
(***************************************************************************)
\* tskit's Tree.is_descendant(u, v): v is on the path from u to the root
RECURSIVE is_descendant(_, _, _)
is_descendant(parent, u, v) ==
    \/ u = v
    \/ u \in DOMAIN parent /\ is_descendant(parent, parent[u], v)

\* tskit's simplify of one tree on the nodes in keep (filter_nodes=False): a
\* node stays in the tree if it is one of keep or if at least two of its child
\* lineages lead to nodes of keep; every other node is bypassed
Below(parent, v, keep) == {x \in keep : is_descendant(parent, x, v)}

Retained(parent, v, keep) ==
    \/ v \in keep
    \/ Cardinality({c \in DOMAIN parent : parent[c] = v /\ Below(parent, c, keep) # {}}) >= 2

RECURSIVE NearestRetained(_, _, _)
NearestRetained(parent, u, keep) ==
    IF u \notin DOMAIN parent THEN {}
    ELSE IF Retained(parent, parent[u], keep) THEN {parent[u]}
    ELSE NearestRetained(parent, parent[u], keep)

SimplifyTree(parent, keep) ==
    LET attached == {u \in Nodes : Retained(parent, u, keep)
                                    /\ NearestRetained(parent, u, keep) # {}}
    IN  [u \in attached |-> CHOOSE v \in NearestRetained(parent, u, keep) : TRUE]

\* adjacent trees with the same edges are one tree
RECURSIVE Squash(_)
Squash(f) ==
    IF Len(f) <= 1 THEN f
    ELSE LET rest == Squash(Tail(f))
         IN  IF Head(f).parent = Head(rest).parent
             THEN <<[Head(rest) EXCEPT !.left = Head(f).left]>> \o Tail(rest)
             ELSE <<Head(f)>> \o rest

\* lines 287-302
Simplified(f, keep) ==
    Squash([k \in 1..Len(f) |-> [f[k] EXCEPT !.parent = SimplifyTree(f[k].parent, keep)]])

\* a bug: source and destination are taken the wrong way round
IsRelevantSwapped(mrow, src, tgt) == mrow.dest = tgt /\ mrow.source = src

\* line 275
IsRelevant(mrow, src, tgt) == mrow.dest = src /\ mrow.source = tgt

\* a bug: a name that matches nothing resolves to the first population
ResolveOrFirst(name) ==
    IF \E p \in DOMAIN PopNames : PopNames[p] = name
    THEN {p \in DOMAIN PopNames : PopNames[p] = name}
    ELSE {0}

\* lines 228 and 233: the ids of the populations called name
Resolve(name) == {p \in DOMAIN PopNames : PopNames[p] = name}

\* lines 255-256
SampleId(n) ==
    IF is_phased THEN <<n \div ploidy, (n % ploidy) + 1>> ELSE <<n \div ploidy>>

\* lines 253-257: the row of node n for migration m in tree t
Row(m, t, n) ==
    [Chromosome |-> 1,
     Start |-> IF m.left > t.left THEN m.left ELSE t.left,
     End |-> IF m.right < t.right THEN m.right ELSE t.right,
     Sample |-> SampleId(n)]

\* lines 251-257: the target samples below m.node in tree t, in node order;
\* each with what it was emitted for
RECURSIVE TreeRows(_, _, _)
TreeRows(m, t, todo) ==
    IF todo = {} THEN <<>>
    ELSE LET n == CHOOSE x \in todo : \A y \in todo : x <= y
         IN  (IF is_descendant(t.parent, n, m.node)
              THEN <<[row |-> Row(m, t, n), mig |-> m, tree |-> t, node |-> n]>>
              ELSE <<>>)
             \o TreeRows(m, t, todo \ {n})

\* a bug: a tree that ends where the migration starts is not skipped
SkipTreeStrict(m, t) == m.left > t.right

\* line 248
SkipTree(m, t) == m.left >= t.right

\* a bug: the scan goes on into a tree that starts where the migration ends
StopScanStrict(m, t) == m.right < t.left

\* line 249
StopScan(m, t) == m.right <= t.left

\* lines 247-257: the scan of the trees from tree k on
RECURSIVE ScanTrees(_, _, _, _)
ScanTrees(m, f, k, samples) ==
    IF k > Len(f) THEN <<>>
    ELSE IF SkipTree(m, f[k]) THEN ScanTrees(m, f, k + 1, samples)
    ELSE IF StopScan(m, f[k]) THEN <<>>
    ELSE TreeRows(m, f[k], samples) \o ScanTrees(m, f, k + 1, samples)

\* lines 242-257
RECURSIVE ScanMigrations(_, _, _)
ScanMigrations(migs, f, samples) ==
    IF migs = <<>> THEN <<>>
    ELSE ScanTrees(Head(migs), f, 1, samples) \o ScanMigrations(Tail(migs), f, samples)

\* lines 247-249: the trees the loop goes through for migration j (m), from
\* tree k on: a tree that is skipped and the tree at which the loop breaks
\* are gone through as well
RECURSIVE ScanVisits(_, _, _, _)
ScanVisits(j, m, f, k) ==
    IF k > Len(f) THEN <<>>
    ELSE <<[mig |-> j, tree |-> k]>> \o
         (IF SkipTree(m, f[k]) THEN ScanVisits(j, m, f, k + 1)
          ELSE IF StopScan(m, f[k]) THEN <<>>
          ELSE ScanVisits(j, m, f, k + 1))

\* lines 242-249: for every migration, from the j-th on, ts.trees() starts at
\* the first tree
RECURSIVE VisitsOf(_, _, _)
VisitsOf(migs, f, j) ==
    IF j > Len(migs) THEN <<>>
    ELSE ScanVisits(j, migs[j], f, 1) \o VisitsOf(migs, f, j + 1)

(***************************************************************************)
(* pyranges' merge(by='Sample') at line 159: per sample, the rows sorted   *)
(* by Start are scanned with a running tract that is extended while the    *)
(* next row starts at or before its end.                                   *)
(***************************************************************************)
RECURSIVE InsertByStart(_, _)
InsertByStart(s, x) ==
    IF s = <<>> THEN <<x>>
    ELSE IF x.Start < Head(s).Start THEN <<x>> \o s
    ELSE <<Head(s)>> \o InsertByStart(Tail(s), x)

RECURSIVE SortByStart(_)
SortByStart(s) ==
    IF s = <<>> THEN <<>>
    ELSE InsertByStart(SortByStart(SubSeq(s, 1, Len(s) - 1)), s[Len(s)])

\* a bug: rows that only touch are kept apart
JoinsOverlapOnly(cur, x) == x.Start < cur.End

Joins(cur, x) == x.Start <= cur.End

\* a bug: the running tract takes the end of the row it absorbs
RECURSIVE CoalesceLastEnd(_, _)
CoalesceLastEnd(cur, sorted) ==
    IF sorted = <<>> THEN <<cur>>
    ELSE IF Joins(cur, Head(sorted))
         THEN CoalesceLastEnd([cur EXCEPT !.End = Head(sorted).End], Tail(sorted))
    ELSE <<cur>> \o CoalesceLastEnd(Head(sorted), Tail(sorted))

RECURSIVE Coalesce(_, _)
Coalesce(cur, sorted) ==
    IF sorted = <<>> THEN <<cur>>
    ELSE IF Joins(cur, Head(sorted))
         THEN Coalesce([cur EXCEPT !.End = Max(cur.End, Head(sorted).End)], Tail(sorted))
    ELSE <<cur>> \o Coalesce(Head(sorted), Tail(sorted))

MergeRows(rows) ==
    IF rows = <<>> THEN <<>>
    ELSE Coalesce(Head(SortByStart(rows)), Tail(SortByStart(rows)))

RECURSIVE MergeSamples(_, _)
MergeSamples(rows, samples) ==
    IF samples = {} THEN <<>>
    ELSE LET s == CHOOSE x \in samples : \A y \in samples : ~TupleLess(y, x)
         IN  MergeRows(SelectSeq(rows, LAMBDA x : x.Sample = s))
             \o MergeSamples(rows, samples \ {s})

MergeBySample(rows) == MergeSamples(rows, {rows[k].Sample : k \in 1..Len(rows)})

(***************************************************************************)
(* MsprimeSimulator.run from line 158 on                                   *)
(***************************************************************************)
InitTracts ==
    /\ tpc = "start"
    /\ is_phased \in BOOLEAN
    /\ ploidy = Ploidy
    /\ \/ /\ src_name = "src"
          /\ tgt_name = "tgt"
          /\ ts \in Forests
          /\ migrations \in MigTables(MaxMig)
       \/ /\ src_name \in {"src", "nowhere"}
          /\ tgt_name \in {"tgt", "nowhere"}
          /\ src_name = "nowhere" \/ tgt_name = "nowhere"
          /\ ts = <<[left |-> 0, right |-> SeqLen, parent |-> <<>>]>>
          /\ migrations = <<>>
    /\ src_id = -1
    /\ tgt_id = -1
    /\ tgt_samples = {}
    /\ ts_simplified = <<>>
    /\ migtable = <<>>
    /\ tracts = <<>>
    /\ provenance = <<>>
    /\ true_tracts = <<>>
    /\ bed_file = [exists |-> FALSE, header |-> FALSE, rows |-> <<>>]
    /\ visits = <<>>

First(S) == CHOOSE x \in S : \A y \in S : x <= y

\* lines 225-237
ResolveNames ==
    /\ tpc = "start"
    /\ tracts' = <<>>
    /\ provenance' = <<>>
    /\ src_id' = IF Resolve(src_name) = {} THEN src_id ELSE First(Resolve(src_name))
    /\ tgt_id' = IF Resolve(src_name) = {} \/ Resolve(tgt_name) = {} THEN tgt_id
                 ELSE First(Resolve(tgt_name))
    /\ IF Resolve(src_name) = {} \/ Resolve(tgt_name) = {}
       THEN tpc' = "ValueError" /\ tgt_samples' = tgt_samples
       ELSE /\ tpc' = "resolved"
            /\ tgt_samples' = {n \in SampleNodes : NodePopulation(n) = tgt_id'}
    /\ UNCHANGED <<ts, migrations, src_name, tgt_name, is_phased, ploidy, ts_simplified,
                   migtable, true_tracts, bed_file, visits>>
    /\ UNCHANGED frame_tracts

\* lines 238 and 262-304
Simplify ==
    /\ tpc = "resolved"
    /\ migtable' = SelectSeq(migrations, LAMBDA mrow : IsRelevant(mrow, src_id, tgt_id))
    /\ ts_simplified' =
          Simplified(ts, {n \in Nodes : NodePopulation(n) \in {src_id, tgt_id}})
    /\ tpc' = "simplified"
    /\ UNCHANGED <<ts, migrations, src_name, tgt_name, is_phased, ploidy, src_id, tgt_id,
                   tgt_samples, tracts, provenance, true_tracts, bed_file, visits>>
    /\ UNCHANGED frame_tracts

\* lines 242-259
Extract ==
    /\ tpc = "simplified"
    /\ LET e == ScanMigrations(migtable, ts_simplified, tgt_samples)
       IN  /\ tracts' = [k \in 1..Len(e) |-> e[k].row]
           /\ provenance' = [k \in 1..Len(e) |->
                                [mig |-> e[k].mig, tree |-> e[k].tree, node |-> e[k].node]]
    /\ visits' = VisitsOf(migtable, ts_simplified, 1)
    /\ tpc' = "extracted"
    /\ UNCHANGED <<ts, migrations, src_name, tgt_name, is_phased, ploidy, src_id, tgt_id,
                   tgt_samples, ts_simplified, migtable, true_tracts, bed_file>>
    /\ UNCHANGED frame_tracts

\* line 159
Merge ==
    /\ tpc = "extracted"
    /\ true_tracts' = MergeBySample(tracts)
    /\ tpc' = "merged"
    /\ UNCHANGED <<ts, migrations, src_name, tgt_name, is_phased, ploidy, src_id, tgt_id,
                   tgt_samples, ts_simplified, migtable, tracts, provenance, bed_file,
                   visits>>
    /\ UNCHANGED frame_tracts

\* a bug: to_csv is left to write its header row
BedContentsHeaderKept(t) ==
    IF t = <<>>
    THEN [exists |-> TRUE, header |-> FALSE, rows |-> <<>>]
    ELSE [exists |-> TRUE, header |-> TRUE, rows |-> t]

\* a bug: nothing is written when there is no tract
BedContentsOmitEmpty(t) ==
    IF t = <<>>
    THEN [exists |-> FALSE, header |-> FALSE, rows |-> <<>>]
    ELSE [exists |-> TRUE, header |-> FALSE, rows |-> t]

\* lines 161-162: open(bed_file, 'w').close(), or to_csv(..., header=False)
BedContents(t) ==
    IF t = <<>>
    THEN [exists |-> TRUE, header |-> FALSE, rows |-> <<>>]
    ELSE [exists |-> TRUE, header |-> FALSE, rows |-> t]

\* lines 161-164
WriteBed ==
    /\ tpc = "merged"
    /\ bed_file' = BedContents(true_tracts)
    /\ tpc' = "returned"
    /\ UNCHANGED <<ts, migrations, src_name, tgt_name, is_phased, ploidy, src_id, tgt_id,
                   tgt_samples, ts_simplified, migtable, tracts, provenance, true_tracts,
                   visits>>
    /\ UNCHANGED frame_tracts

NextTracts ==
    \/ ResolveNames
    \/ Simplify
    \/ Extract
    \/ Merge
    \/ WriteBed

(***************************************************************************)
(* LRTrainingDataSimulator.run (lines 147-177): simulate, label, compute   *)
(* the feature vectors, join the two by sample.  win_len is seq_len, so a  *)
(* replicate has one window [0, seq_len) and one feature vector per sample.*)
(***************************************************************************)
IdleRun ==
    /\ rpc = "idle"
    /\ rep = 0
    /\ sim_fails = FALSE
    /\ covered = [s \in Samples |-> 0]
    /\ intro_min = 1
    /\ non_intro_max = 0
    /\ labels = <<>>
    /\ feature_vectors = <<>>
    /\ merged_list = <<>>
    /\ files = {}

InitRun ==
    /\ rpc = "start"
    /\ rep \in 0..MaxNrep
    /\ sim_fails \in BOOLEAN
    /\ covered \in [Samples -> 0..SeqLen]
    /\ intro_min \in 1..SeqLen
    /\ non_intro_max \in 0..(SeqLen - 1)
    /\ labels = <<>>
    /\ feature_vectors = <<>>
    /\ merged_list = <<>>
    /\ files = {}

\* the label of a window of which c positions are covered, "none" if ambiguous
LabelOf(c) ==
    IF c >= intro_min THEN "1"
    ELSE IF c <= non_intro_max THEN "0"
    ELSE "none"

\* the entries of the samples 1..n that get a label, in sample order
RECURSIVE LabelEntries(_)
LabelEntries(n) ==
    IF n = 0 THEN <<>>
    ELSE LabelEntries(n - 1) \o
         (IF LabelOf(covered[n]) = "none" THEN <<>>
          ELSE <<[Sample |-> n, Label |-> IF LabelOf(covered[n]) = "1" THEN 1 ELSE 0,
                  Replicate |-> rep]>>)

(***************************************************************************)
(* The paths of MsprimeSimulator.run (lines 112-121).  A path is the       *)
(* directory below output_dir (<<>> is output_dir itself, <<i>> is         *)
(* output_dir/i) and the file name: output_prefix, the replicate index as  *)
(* far as the name carries one, and the extension.  r = -1 stands for      *)
(* rep = None, with which lr_simulate's workers are never run.             *)
(***************************************************************************)
\* a bug: every replicate writes into output_dir itself
ReplicateDirShared(r) == <<>>

\* line 112
ReplicateDir(r) == IF r = -1 THEN <<>> ELSE <<r>>

\* line 113
ReplicatePrefix(r) == IF r = -1 THEN <<>> ELSE <<r>>

\* lines 116-121
Extensions == {"ts", "vcf", "true.tracts.bed", "ref.ind.list", "tgt.ind.list", "seedmsprime"}

FilePaths(r) ==
    {[dir |-> ReplicateDir(r), name |-> [rep |-> ReplicatePrefix(r), ext |-> e]] :
        e \in Extensions}

\* simulate.py, line 137: the feature table of lr_simulate
OutputFile == [dir |-> <<>>, name |-> [rep |-> <<>>, ext |-> "features"]]

\* line 147: MsprimeSimulator.run writes the individual lists (line 132), the
\* forest, the variants and the seed (lines 152-156), and the tract file
\* (lines 161-162) unless _get_true_tracts raised at line 158
RunSimulator ==
    /\ rpc = "start"
    /\ rpc' = IF sim_fails THEN "ValueError" ELSE "simulated"
    /\ files' = IF sim_fails
                THEN {p \in FilePaths(rep) : p.name.ext # "true.tracts.bed"}
                ELSE FilePaths(rep)
    /\ UNCHANGED <<rep, sim_fails, covered, intro_min, non_intro_max, labels,
                   feature_vectors, merged_list>>
    /\ UNCHANGED frame_run

\* lines 149-153
RunLabeler ==
    /\ rpc = "simulated"
    /\ labels' = LabelEntries(NSamples)
    /\ rpc' = "labeled"
    /\ UNCHANGED <<rep, sim_fails, covered, intro_min, non_intro_max,
                   feature_vectors, merged_list, files>>
    /\ UNCHANGED frame_run

\* lines 155-172
RunPreprocessor ==
    /\ rpc = "labeled"
    /\ feature_vectors' =
          [s \in Samples |-> [Chromosome |-> 1, Start |-> 0, End |-> SeqLen, Sample |-> s]]
    /\ rpc' = "features"
    /\ UNCHANGED <<rep, sim_fails, covered, intro_min, non_intro_max, labels, merged_list,
                   files>>
    /\ UNCHANGED frame_run

\* line 174: the dict of the label entries by sample (a later entry wins)
Lookup(ls) ==
    [s \in {ls[k].Sample : k \in 1..Len(ls)} |->
        ls[CHOOSE k \in 1..Len(ls) :
              ls[k].Sample = s /\ \A j \in 1..Len(ls) : ls[j].Sample = s => j <= k]]

\* line 175: the feature vectors for which lookup[item['Sample']] does not raise
Joinable(fs, lookup) == SelectSeq(fs, LAMBDA item : item.Sample \in DOMAIN lookup)

\* lines 174-177
RunMerge ==
    /\ rpc = "features"
    /\ LET lookup == Lookup(labels)
       IN  IF Len(Joinable(feature_vectors, lookup)) = Len(feature_vectors)
           THEN /\ merged_list' =
                      [k \in 1..Len(feature_vectors) |->
                          Record(lookup[feature_vectors[k].Sample].Replicate,
                                 feature_vectors[k].Sample,
                                 lookup[feature_vectors[k].Sample].Label)]
                /\ rpc' = "returned"
           ELSE /\ merged_list' = merged_list
                /\ rpc' = "KeyError"
    /\ UNCHANGED <<rep, sim_fails, covered, intro_min, non_intro_max, labels,
                   feature_vectors, files>>
    /\ UNCHANGED frame_run

NextRun ==
    \/ RunSimulator
    \/ RunLabeler
    \/ RunPreprocessor
    \/ RunMerge

(***************************************************************************)
(* The specifications.                                                     *)
(***************************************************************************)
Init == InitLR /\ IdleUnet /\ IdleTracts /\ IdleRun

Next == NextLR

Spec == Init /\ [][Next]_vars

InitU == InitUnet /\ IdleLR /\ IdleTracts /\ IdleRun

SpecUnet == InitU /\ [][NextUnet]_vars

InitT == InitTracts /\ InitIdleLR /\ IdleUnet /\ IdleRun

SpecTracts == InitT /\ [][NextTracts]_vars

InitR == InitRun /\ InitIdleLR /\ IdleUnet /\ IdleTracts

SpecRun == InitR /\ [][NextRun]_vars

(***************************************************************************)
(* Properties of lr_simulate (specification Spec).                         *)
(***************************************************************************)
CountLabel(s, l) == Len(WithLabel(s, l))

\* the records collected when the loop was left
Collected == Range(intro_features \o non_intro_features)

\* C1: whenever lr_simulate completes, the table it has written holds exactly
\* nfeature rows, and a table is only ever written with that many rows.
C1_ExactRowCount ==
    /\ pc = "done" => written
    /\ written => Len(output) = nfeature

\* the run completed with more records collected than requested
C1_Witness ==
    /\ pc = "done"
    /\ Len(intro_features) + Len(non_intro_features) > nfeature

\* C2: with force_balanced the written table holds ceil(nfeature/2) records of
\* Label 1 and floor(nfeature/2) records of Label 0.
C2_BalancedSplit ==
    (written /\ force_balanced) =>
        /\ CountLabel(output, 1) = (nfeature + 1) \div 2
        /\ CountLabel(output, 0) = nfeature - ((nfeature + 1) \div 2)

\* a balanced run with an odd total above one, completed in its second batch
C2_Witness ==
    /\ pc = "done"
    /\ force_balanced
    /\ nfeature > 1
    /\ nfeature % 2 = 1
    /\ nbatches > 1

\* C3: once a worker of a batch has failed the run can only end in SystemExit:
\* no batch is dispatched after it, nothing runs after the exit, and the
\* table is never written.
C3_FailureIsTerminal ==
    worker_error =>
        /\ pc \in {"mp_manager", "SystemExit"}
        /\ ~written
        /\ pc = "SystemExit" => ~ENABLED Next

\* a failure in a later batch, with records of an earlier batch accumulated
C3_Witness ==
    /\ pc = "SystemExit"
    /\ nbatches > 1
    /\ Len(intro_features) + Len(non_intro_features) > 0

\* C4: the written table is the one of the run whose workers complete in index
\* order: rows and row order do not depend on the completion order of a batch,
\* sorted or shuffled.
C4_OrderIndependent == written => output = ref_output

\* a completed run of which a batch came back out of index order
C4_Witness ==
    /\ pc = "done"
    /\ reordered
    /\ Len(output) > 1

\* C5: with nfeature <= 0 the call ends in ValueError with nothing done: no
\* directory created, no batch dispatched, no table written.
C5_NonPositiveNFeatureRejected ==
    nfeature <= 0 =>
        /\ pc \in {"start", "ValueError"}
        /\ ~made_output_dir
        /\ dirs = {}
        /\ nbatches = 0
        /\ ~written

\* the call was rejected
C5_Witness == pc = "ValueError" /\ nfeature <= 0

\* C6: with nrep <= 0 no batch is dispatched and the collection loop is not entered.
C6_NonPositiveNrepRejected ==
    nrep <= 0 => (nbatches = 0 /\ pc \notin {"loop", "mp_manager", "cleanup", "accumulate"})

\* C8: in unbalanced mode no kept record comes after a dropped record in
\* (Replicate, Chromosome, Start, End, Sample) order.
C8_TruncationKeepsEarlier ==
    (pc = "done" /\ ~force_balanced) =>
        \A k \in Range(output) : \A d \in Collected \ Range(output) : ~KeyLess(d, k)

(***************************************************************************)
(* Properties of unet_simulate (specification SpecUnet).                   *)
(***************************************************************************)
\* C7: with nfeature <= 0 unet_simulate raises ValueError and dispatches no batch.
C7_UnetNonPositiveNFeatureRejected ==
    nfeature <= 0 => (nbatches = 0 /\ pc \in {"start", "ValueError"})

(***************************************************************************)
(* Properties of the tract extraction (specification SpecTracts).          *)
(***************************************************************************)
\* C9: after merging, two tracts of the same sample neither overlap nor touch:
\* one ends strictly before the other starts.  The same holds of the rows of
\* the tract file.
C9_MergedTractsApart ==
    /\ \A i, j \in 1..Len(true_tracts) :
          (i # j /\ true_tracts[i].Sample = true_tracts[j].Sample) =>
              \/ true_tracts[i].End < true_tracts[j].Start
              \/ true_tracts[j].End < true_tracts[i].Start
    /\ \A i, j \in 1..Len(bed_file.rows) :
          (i # j /\ bed_file.rows[i].Sample = bed_file.rows[j].Sample) =>
              \/ bed_file.rows[i].End < bed_file.rows[j].Start
              \/ bed_file.rows[j].End < bed_file.rows[i].Start

\* a file with two tracts of one sample, written from fragments of which two
\* of one sample touched and were coalesced
C9_Witness ==
    /\ tpc = "returned"
    /\ \E i, j \in 1..Len(bed_file.rows) :
          i # j /\ bed_file.rows[i].Sample = bed_file.rows[j].Sample
    /\ \E i, j \in 1..Len(tracts) :
          tracts[i].Sample = tracts[j].Sample /\ tracts[i].End = tracts[j].Start
    /\ Len(true_tracts) < Len(tracts)

\* C10: a fragment emitted for migration [l, r) and tree [tl, tr) is
\* [max(l, tl), min(r, tr)), is not empty, and lies in the migration's
\* interval, in the tree's interval and in [0, seq_len).
C10_FragmentClipped ==
    \A k \in 1..Len(tracts) :
        LET m == provenance[k].mig
            t == provenance[k].tree
        IN  /\ tracts[k].Start = Max(m.left, t.left)
            /\ tracts[k].End = Min(m.right, t.right)
            /\ tracts[k].Start < tracts[k].End
            /\ m.left <= tracts[k].Start /\ tracts[k].End <= m.right
            /\ t.left <= tracts[k].Start /\ tracts[k].End <= t.right
            /\ 0 <= tracts[k].Start /\ tracts[k].End <= SeqLen

\* a fragment cut on the left by its tree and on the right by its migration
C10_Witness ==
    /\ tpc = "extracted"
    /\ \E k \in 1..Len(tracts) :
          /\ provenance[k].mig.left < provenance[k].tree.left
          /\ provenance[k].mig.right < provenance[k].tree.right

NoSuchPopulation(name) == \A p \in DOMAIN PopNames : PopNames[p] # name

\* C11: when the source name or the target name matches no population, the
\* extraction stops with an error before the forest is simplified and before
\* any tree is scanned: nothing is simplified, no fragment and no merged tract
\* exists, no tract file is written, and nothing further happens.
C11_ResolutionFailureFatal ==
    (NoSuchPopulation(src_name) \/ NoSuchPopulation(tgt_name)) =>
        /\ tpc \in {"start", "ValueError"}
        /\ ts_simplified = <<>> /\ migtable = <<>>
        /\ tracts = <<>> /\ true_tracts = <<>>
        /\ ~bed_file.exists
        /\ tpc = "ValueError" => ~ENABLED NextTracts

\* the source name was resolved, the target name was not
C11_Witness ==
    /\ tpc = "ValueError"
    /\ ~NoSuchPopulation(src_name) /\ src_id = 2
    /\ NoSuchPopulation(tgt_name)

\* C12 as amended: a tract file written for a replicate with at least one
\* merged tract has no header row; it holds exactly one row per merged tract.
C12_BedRowsWithoutHeader ==
    (bed_file.exists /\ true_tracts # <<>>) =>
        (~bed_file.header /\ bed_file.rows = true_tracts)

\* a file of two merged tracts
C12_Witness ==
    /\ tpc = "returned"
    /\ Len(true_tracts) = 2
    /\ bed_file.exists /\ Len(bed_file.rows) = 2

\* C12: a tract file written for a replicate with at least one merged tract
\* starts with the header row and then holds one row per merged tract.
C12_BedStartsWithHeader ==
    (bed_file.exists /\ true_tracts # <<>>) =>
        (bed_file.header /\ bed_file.rows = true_tracts)

NoRelevantMigration ==
    \A k \in 1..Len(migrations) :
        ~(migrations[k].source = tgt_id /\ migrations[k].dest = src_id)

\* C13: when no migration is relevant, or no target sample descends from a
\* relevant migration lineage (no fragment is emitted), the merged tract set
\* is empty, the tract file is created with nothing in it (no header, no
\* row), and the replicate runs to its end without an error.
C13_EmptyTractFile ==
    (/\ tpc \notin {"start", "ValueError"}
     /\ \/ NoRelevantMigration
        \/ tpc \in {"extracted", "merged", "returned"} /\ tracts = <<>>) =>
        /\ tracts = <<>> /\ true_tracts = <<>>
        /\ tpc = "returned" =>
               bed_file = [exists |-> TRUE, header |-> FALSE, rows |-> <<>>]
        /\ tpc # "returned" => (~bed_file.exists /\ ENABLED NextTracts)

\* relevant migrations of which no target sample descends, and an empty file
C13_Witness ==
    /\ tpc = "returned"
    /\ migtable # <<>>
    /\ tracts = <<>>
    /\ bed_file.exists /\ bed_file.rows = <<>>

(***************************************************************************)
(* Properties of LRTrainingDataSimulator.run (specification SpecRun).      *)
(***************************************************************************)
LabeledRecords ==
    {Record(rep, s, IF LabelOf(covered[s]) = "1" THEN 1 ELSE 0) :
        s \in {x \in Samples : LabelOf(covered[x]) # "none"}}

\* C14: a sample whose window gets no label is left out of the replicate's
\* records: whatever samples are unlabeled, run does not fail and returns
\* the records of the labeled samples.
C14_UnlabeledExcluded ==
    /\ rpc # "KeyError"
    /\ rpc = "returned" => Range(merged_list) = LabeledRecords

Occurrences(s, x) == Cardinality({k \in 1..Len(s) : s[k] = x})

IsPermutation(a, b) ==
    /\ Len(a) = Len(b)
    /\ \A x \in Range(a) \cup Range(b) : Occurrences(a, x) = Occurrences(b, x)

\* the tables the run writes with is_shuffled false and with is_shuffled true
UnshuffledTable == SortByKey(Slice(intro_features \o non_intro_features, nfeature))
ShuffledTable == Shuffle(Slice(intro_features \o non_intro_features, nfeature), seed)

\* C16: for the same parameters the shuffled table is a permutation of the
\* unshuffled one: the shuffle comes after the cut to nfeature and changes the
\* order of the rows only, not which records or how many of each label.
C16_ShuffleIsPermutation ==
    written =>
        /\ output = (IF is_shuffled THEN ShuffledTable ELSE UnshuffledTable)
        /\ IsPermutation(ShuffledTable, UnshuffledTable)
        /\ IsPermutation(output, UnshuffledTable)
        /\ \A l \in {0, 1} : CountLabel(output, l) = CountLabel(UnshuffledTable, l)

\* a shuffled table of records of both labels, in another order than the
\* sorted one, written after records were cut off
C16_Witness ==
    /\ written /\ is_shuffled
    /\ output # UnshuffledTable
    /\ Len(intro_features \o non_intro_features) > nfeature
    /\ CountLabel(output, 0) > 0 /\ CountLabel(output, 1) > 0

\* the stop condition of the loop, on the accumulators as they are
QuotasMet ==
    IF force_balanced
    THEN /\ Len(intro_features) >= (nfeature + 1) \div 2
         /\ Len(non_intro_features) >= nfeature \div 2
    ELSE Len(intro_features) + Len(non_intro_features) >= nfeature

\* C17: lr_simulate leaves the collecting loop after a batch exactly when the
\* stop condition holds after that batch (both class quotas met under
\* force_balanced, the total reached otherwise): while a batch is dispatched
\* or processed the condition did not hold before it, between two batches
\* the loop flag is the condition, and the run completes only with it true.
C17_StopIffQuotasMet ==
    /\ pc \in {"mp_manager", "cleanup", "accumulate"} => ~QuotasMet
    /\ pc = "loop" => (is_stopped <=> QuotasMet)
    /\ pc = "loop" /\ QuotasMet => ~ENABLED Dispatch
    /\ pc = "loop" /\ ~QuotasMet => ~ENABLED Finish
    /\ pc = "done" => QuotasMet

\* a balanced run between two batches with one quota met and the other not
C17_Witness ==
    /\ pc = "loop" /\ force_balanced /\ nbatches = 1
    /\ Len(intro_features) >= (nfeature + 1) \div 2
    /\ Len(non_intro_features) < nfeature \div 2
    /\ ~is_stopped

\* the replicate indexes of the k-th batch, k = 0, 1, ...
BatchRange(k) == {i \in 0..((k + 1) * nrep - 1) : i >= k * nrep}

\* C18: the cursor advances by exactly nrep after every batch, whatever the
\* batch returned: the k-th batch is requested for the indexes
\* k*nrep .. k*nrep + nrep - 1 with the same seed, so the batches of a run
\* share no replicate index.
C18_CursorAdvancesByNrep ==
    [][/\ (pc = "loop" /\ pc' = "mp_manager") =>
            /\ pending' = BatchRange(nbatches)
            /\ start_rep = nbatches * nrep
            /\ \A k \in 0..(nbatches - 1) : BatchRange(k) \cap pending' = {}
       /\ (pc \in {"accumulate", "mp_manager"} /\ pc' = "loop") =>
            start_rep' = start_rep + nrep
       /\ seed' = seed /\ nrep' = nrep]_vars

\* the second batch of two replicates is dispatched after a first batch that
\* returned no record
C18_Witness ==
    /\ pc = "mp_manager" /\ nbatches = 2 /\ nrep = 2
    /\ pending = {2, 3}
    /\ intro_features = <<>> /\ non_intro_features = <<>>

\* C19: under force_balanced no accumulator ever holds more than its quota
\* (ceil(nfeature/2) positive, floor(nfeature/2) negative records): a batch
\* appends min(remaining quota, records available) records of each class, a
\* number that is never negative, and the surplus of a full class is dropped.
C19_QuotaCaps ==
    [][(force_balanced /\ pc \in {"loop", "mp_manager", "cleanup", "accumulate"}) =>
        /\ Len(intro_features') <= (nfeature + 1) \div 2
        /\ Len(non_intro_features') <= nfeature \div 2
        /\ Len(intro_features') >= Len(intro_features)
        /\ Len(non_intro_features') >= Len(non_intro_features)
        /\ pc = "accumulate" =>
              /\ Len(intro_features') - Len(intro_features) =
                    Min(((nfeature + 1) \div 2) - Len(intro_features),
                        Cardinality({k \in 1..Len(features) : features[k].Label = 1}))
              /\ Len(non_intro_features') - Len(non_intro_features) =
                    Min((nfeature \div 2) - Len(non_intro_features),
                        Cardinality({k \in 1..Len(features) : features[k].Label = 0}))
              /\ \A k \in 1..Len(intro_features) : intro_features'[k] = intro_features[k]
              /\ \A k \in 1..Len(non_intro_features) :
                    non_intro_features'[k] = non_intro_features[k]]_vars

\* a batch has brought more positive records than the quota had room for:
\* the accumulator is full and a positive record of the batch is not in it
C19_Witness ==
    /\ force_balanced /\ pc = "loop" /\ nbatches = 2
    /\ Len(intro_features) = (nfeature + 1) \div 2
    /\ \E k \in 1..Len(features) :
          features[k].Label = 1 /\ features[k] \notin Range(intro_features)
    /\ Len(non_intro_features) < nfeature \div 2

IsSortedByKey(s) ==
    \A j, k \in 1..Len(s) :
        j < k =>
            ~TupleLess(<<s[k].Replicate, s[k].Chromosome, s[k].Start, s[k].End, s[k].Sample>>,
                       <<s[j].Replicate, s[j].Chromosome, s[j].Start, s[j].End, s[j].Sample>>)

\* C20: after every batch each accumulator is in non-decreasing
\* (Replicate, Chromosome, Start, End, Sample) order, so at the end each class
\* is sorted before the rows are shuffled or sorted.
C20_AccumulatorsSorted ==
    /\ IsSortedByKey(intro_features)
    /\ IsSortedByKey(non_intro_features)

\* two batches have added to an accumulator, the second out of arrival order
C20_Witness ==
    /\ pc = "loop" /\ nbatches = 2 /\ reordered
    /\ \E j, k \in 1..Len(non_intro_features) :
          non_intro_features[j].Replicate < non_intro_features[k].Replicate
    /\ Len(intro_features) >= 2

(***************************************************************************)
(* Further properties of the tract extraction (specification SpecTracts).  *)
(***************************************************************************)
\* C21: the migration records the simplifier returns are exactly the records
\* of the full table with source = target population id and dest = source
\* population id, in the order of the table, and the table of the input
\* forest (and the forest itself) is left as it was.
C21_RelevantMigrationsFiltered ==
    [][/\ migrations' = migrations /\ ts' = ts
       /\ tpc' \in {"simplified", "extracted", "merged", "returned"} =>
            /\ migtable' = SelectSeq(migrations,
                                     LAMBDA r : r.source = tgt_id /\ r.dest = src_id)
            /\ \A k \in 1..Len(migtable') :
                  migtable'[k].source = 1 /\ migtable'[k].dest = 2]_vars

\* a table of two records of which only the second is relevant
C21_Witness ==
    /\ tpc = "simplified"
    /\ Len(migrations) = 2 /\ Len(migtable) = 1
    /\ migtable[1] = migrations[2]
    /\ migrations[1].source = 2 /\ migrations[1].dest = 1

\* the (tree, sample) pairs of the simplified forest a fragment is due for
\* migration m: the tree overlaps m and the sample descends from m's node
Due(m) ==
    {<<k, n>> \in (1..Len(ts_simplified)) \X tgt_samples :
        /\ ts_simplified[k].left < m.right
        /\ m.left < ts_simplified[k].right
        /\ is_descendant(ts_simplified[k].parent, n, m.node)}

RECURSIVE SumDue(_)
SumDue(k) == IF k = 0 THEN 0 ELSE SumDue(k - 1) + Cardinality(Due(migtable[k]))

\* C22: a fragment is emitted for migration m, tree t and target sample n if
\* and only if t overlaps m (tl < r and l < tr) and n descends from m's node
\* in t: the skip and the early stop of the scan drop no overlapping tree and
\* admit no other.
C22_EmitIffOverlapAndDescendant ==
    tpc \in {"extracted", "merged", "returned"} =>
        /\ Len(tracts) = SumDue(Len(migtable))
        /\ {<<provenance[k].mig, provenance[k].tree, provenance[k].node>> :
                k \in 1..Len(provenance)}
             = UNION {{<<migtable[j], ts_simplified[d[1]], d[2]>> : d \in Due(migtable[j])} :
                         j \in 1..Len(migtable)}

\* a migration that ends where the second tree starts, and one that starts
\* there: each yields fragments from one tree only
C22_Witness ==
    /\ tpc = "extracted"
    /\ Len(ts_simplified) = 2 /\ Len(migtable) = 2
    /\ migtable[1].right = ts_simplified[2].left
    /\ migtable[2].left = ts_simplified[2].left
    /\ \E k \in 1..Len(provenance) : provenance[k].mig = migtable[1]
    /\ \E k \in 1..Len(provenance) : provenance[k].mig = migtable[2]
    /\ \A k \in 1..Len(provenance) :
          provenance[k].tree = ts_simplified[IF provenance[k].mig = migtable[1] THEN 1 ELSE 2]

\* the positions the rows of sample s cover
Covered(rows, s) ==
    {p \in 0..(SeqLen - 1) :
        \E k \in 1..Len(rows) : rows[k].Sample = s /\ rows[k].Start <= p /\ p < rows[k].End}

\* C23: merging preserves the coverage of every sample, and when a sample
\* descends from a migration's node in every tree that overlaps the
\* migration's interval [l, r), one merged tract of the sample holds all of
\* [l, r); it is [l, r) itself when the sample has no other fragment.
C23_MergePreservesCoverage ==
    tpc \in {"merged", "returned"} =>
        /\ \A k \in 1..Len(tracts) :
              Covered(true_tracts, tracts[k].Sample) = Covered(tracts, tracts[k].Sample)
        /\ \A k \in 1..Len(true_tracts) :
              \E j \in 1..Len(tracts) : tracts[j].Sample = true_tracts[k].Sample
        /\ \A j \in 1..Len(migtable) : \A n \in tgt_samples :
              (\A k \in 1..Len(ts_simplified) :
                  (ts_simplified[k].left < migtable[j].right
                   /\ migtable[j].left < ts_simplified[k].right)
                  => is_descendant(ts_simplified[k].parent, n, migtable[j].node))
              => /\ \E k \in 1..Len(true_tracts) :
                       /\ true_tracts[k].Sample = SampleId(n)
                       /\ true_tracts[k].Start <= migtable[j].left
                       /\ migtable[j].right <= true_tracts[k].End
                 /\ (\A k \in 1..Len(provenance) :
                         tracts[k].Sample = SampleId(n) =>
                             (provenance[k].mig = migtable[j] /\ provenance[k].node = n))
                    => \E k \in 1..Len(true_tracts) :
                          true_tracts[k] = [Chromosome |-> 1, Start |-> migtable[j].left,
                                            End |-> migtable[j].right, Sample |-> SampleId(n)]

\* one migration over two trees: two fragments of a sample that meet at the
\* tree boundary have become the one tract of the migration's interval
C23_Witness ==
    /\ tpc = "merged"
    /\ Len(migtable) = 1 /\ Len(ts_simplified) = 2
    /\ \E i, j \in 1..Len(tracts) :
          /\ tracts[i].Sample = tracts[j].Sample
          /\ tracts[i].End = tracts[j].Start
          /\ \E k \in 1..Len(true_tracts) :
                /\ true_tracts[k].Sample = tracts[i].Sample
                /\ true_tracts[k].Start = tracts[i].Start
                /\ true_tracts[k].End = tracts[j].End
                /\ true_tracts[k].Start = migtable[1].left
                /\ true_tracts[k].End = migtable[1].right

\* the tree of forest f that covers position p
TreeAt(f, p) == f[CHOOSE k \in 1..Len(f) : f[k].left <= p /\ p < f[k].right]

FullForestRows ==
    LET e == ScanMigrations(migtable, ts, tgt_samples)
    IN  [k \in 1..Len(e) |-> e[k].row]

\* C24: for every relevant migration record, every position and every target
\* sample, the sample descends from the migration's node in the tree of the
\* simplified forest at that position exactly when it does in the tree of
\* the full forest, also when the node belongs to neither population; the
\* two forests yield the same tracts.
C24_SimplifiedForestEquivalent ==
    /\ tpc \in {"simplified", "extracted", "merged", "returned"} =>
          \A j \in 1..Len(migtable) : \A p \in 0..(SeqLen - 1) : \A n \in tgt_samples :
              is_descendant(TreeAt(ts_simplified, p).parent, n, migtable[j].node)
              <=> is_descendant(TreeAt(ts, p).parent, n, migtable[j].node)
    /\ tpc \in {"merged", "returned"} => true_tracts = MergeBySample(FullForestRows)

(***************************************************************************)
(* Properties of the scheduler's cleanup, truncation and termination       *)
(* (specification Spec).                                                   *)
(***************************************************************************)
\* C25 as amended: with keep_sim_data false the directory of replicate i is
\* deleted only after the whole batch that holds i has returned without an
\* error, with the records of the batch held in the sorted batch list, and
\* before those records are appended to the accumulators.
C25_DeletedAfterBatchReturned ==
    [][\A i \in dirs \ dirs' :
          /\ ~keep_sim_data
          /\ pc = "cleanup" /\ pc' = "accumulate"
          /\ ~worker_error /\ pending = {}
          /\ start_rep <= i /\ i < start_rep + nrep
          /\ features' = features
          /\ \A k \in 1..Len(features) :
                features[k] \notin Range(intro_features \o non_intro_features)
          /\ intro_features' = intro_features
          /\ non_intro_features' = non_intro_features]_vars

\* the directories of the second batch are gone and its records are about to
\* be appended
C25_Witness ==
    /\ pc = "accumulate" /\ ~keep_sim_data /\ nbatches = 2
    /\ dirs = {}
    /\ features # <<>>
    /\ intro_features \o non_intro_features # <<>>

\* C25: with keep_sim_data false the directory of replicate i is deleted
\* only after the records of the batch that holds i were appended to
\* intro_features / non_intro_features (after which the cursor is beyond i).
C25_DeletedAfterMerge ==
    [][\A i \in dirs \ dirs' : start_rep > i]_vars

(***************************************************************************)
(* Further properties of LRTrainingDataSimulator.run (specification        *)
(* SpecRun).                                                               *)
(***************************************************************************)
\* C26: every path written for replicate i lies in output_dir/i and carries
\* the prefix output_prefix.i, so the paths of two distinct replicates are
\* disjoint, and the feature table is in no replicate directory.
C26_PathsNamespaced ==
    /\ rpc \notin {"idle", "start"} => files # {}
    /\ \A p \in files : p.dir = <<rep>> /\ p.name.rep = <<rep>>
    /\ \A j \in 0..MaxNrep :
          j # rep => \A p \in files : \A q \in FilePaths(j) : p # q /\ p.dir # q.dir
    /\ OutputFile \notin files
    /\ \A j \in 0..MaxNrep : \A q \in FilePaths(j) \cup files : OutputFile.dir # q.dir

\* replicate 1 has written its six files
C26_Witness ==
    /\ rpc = "returned" /\ rep = 1
    /\ Cardinality(files) = 6

\* C27: after the first migration record, the scan for a further record
\* starts where it is needed, not at the first tree again: it goes through
\* no tree that lies entirely to the left of the record's interval.
C27_NoRescanFromFirstTree ==
    \A v \in 1..Len(visits) :
        visits[v].mig > 1 =>
            ts_simplified[visits[v].tree].right > migtable[visits[v].mig].left

\* C28: in unbalanced mode the cut to nfeature rows takes the positives first:
\* the positives of the output are the first nfeature accumulated positives
\* (all of them when there are at most nfeature), the negatives of the output
\* are the first accumulated negatives that fill the rest, and there is no
\* negative in the output when at least nfeature positives were accumulated.
C28_TruncationKeepsPositivesFirst ==
    (written /\ ~force_balanced) =>
        /\ IsPermutation(WithLabel(output, 1), Slice(intro_features, nfeature))
        /\ IsPermutation(WithLabel(output, 0),
                         Slice(non_intro_features,
                               nfeature - Min(Len(intro_features), nfeature)))
        /\ Len(intro_features) <= nfeature =>
               Range(intro_features) \subseteq Range(output)
        /\ Len(intro_features) >= nfeature => WithLabel(output, 0) = <<>>

\* an unbalanced run that kept some positive and dropped some negative
C28_Witness ==
    /\ written /\ ~force_balanced
    /\ intro_features # <<>>
    /\ Len(intro_features) < nfeature
    /\ Len(WithLabel(output, 0)) < Len(non_intro_features)

\* what is still missing of a quota
Deficit(have, quota) == IF have >= quota THEN 0 ELSE quota - have

\* the records the loop still waits for: the open part of each class quota
\* under force_balanced, of the total otherwise
Remaining ==
    IF force_balanced
    THEN Deficit(Len(intro_features), (nfeature + 1) \div 2)
         + Deficit(Len(non_intro_features), nfeature \div 2)
    ELSE Deficit(Len(intro_features) + Len(non_intro_features), nfeature)

\* the batch at hand has a record of every class whose quota is open
\* (any record at all in unbalanced mode)
BatchFeedsEveryOpenClass ==
    IF force_balanced
    THEN /\ Len(intro_features) < (nfeature + 1) \div 2 =>
                \E k \in 1..Len(features) : features[k].Label = 1
         /\ Len(non_intro_features) < nfeature \div 2 =>
                \E k \in 1..Len(features) : features[k].Label = 0
    ELSE features # <<>>

\* the batch at hand has no record of some class whose quota is open
\* (no record at all in unbalanced mode, as with nrep = 0)
BatchStarvesAnOpenClass ==
    IF force_balanced
    THEN \/ /\ Len(intro_features) < (nfeature + 1) \div 2
            /\ \A k \in 1..Len(features) : features[k].Label # 1
         \/ /\ Len(non_intro_features) < nfeature \div 2
            /\ \A k \in 1..Len(features) : features[k].Label # 0
    ELSE features = <<>>

\* C29: nothing but the accumulated records ends the loop of lr_simulate. The
\* loop starts with nfeature records to wait for; a batch that brings a
\* record of every open class lowers that number by at least one, so that at
\* most nfeature such batches lead to the output; a batch that brings no
\* record of an open class (none at all in unbalanced mode or with nrep = 0)
\* leaves the loop running; and as long as records are waited for the next
\* batch is dispatched and no output is written.
C29_OnlyRecordsEndTheLoop ==
    [][/\ (pc = "setup" /\ pc' = "loop") => (Remaining' = nfeature /\ ~is_stopped')
       /\ (pc = "accumulate" /\ pc' = "loop") =>
              /\ Remaining' <= Remaining
              /\ BatchFeedsEveryOpenClass => Remaining' < Remaining
              /\ BatchStarvesAnOpenClass => (~is_stopped' /\ Remaining' > 0)
              /\ is_stopped' <=> (Remaining' = 0)
       /\ (pc = "loop" /\ Remaining > 0) =>
              /\ ~written'
              /\ pc' \in {"loop", "mp_manager"}
              /\ nbatches < MaxBatches => ENABLED Dispatch
       /\ (~written /\ written') => (Remaining = 0 /\ nrep > 0)
      ]_vars

\* two batches returned no record and the loop is still running
C29_Witness ==
    /\ pc = "loop" /\ nbatches = 2 /\ ~is_stopped
    /\ intro_features = <<>> /\ non_intro_features = <<>>

====
